---- MODULE Spec2Model ----
(***************************************************************************)
(* Order lifecycle of the Telegram storefront bot: cart (CartRepository),  *)
(* checkout conversation (OrderFSM handlers of bot.py), order creation and *)
(* order status (OrderRepository, admin_panel_v_2.py).                     *)
(*                                                                         *)
(* Tables hold only committed rows.  The steps of create_order between     *)
(* db.flush() and db.commit() work on the rows pending in the session      *)
(* (variable txn); closing the session without commit discards them.       *)
(* Every other handler touches the database in synchronous code and runs   *)
(* as one step.                                                            *)
(***************************************************************************)
EXTENDS Integers, Sequences, FiniteSets, TLC

VARIABLES
    users,          \* telegram ids that have a row in table users
    products,       \* table products: id -> row
    cart,           \* table cart_items: set of rows
    next_cart_id,   \* next primary key of cart_items
    orders,         \* table orders: sequence of rows, Order.id = index
    order_items,    \* table order_items: sequence of rows
    fsm,            \* MemoryStorage: FSM state per telegram id
    data,           \* MemoryStorage: FSM data per telegram id
    txn,            \* the session of a running confirm_order / create_order
    tasks,          \* on_qty handlers suspended at an await, per task
    last            \* the handler that ran last, its input and what it saw

vars == <<users, products, cart, next_cart_id, orders, order_items,
          fsm, data, txn, tasks, last>>

-----------------------------------------------------------------------------
(* Bounds of the model *)

MaxCartRows == 2
MaxQty == 3
MaxOrders == 1
MaxListed == 21

-----------------------------------------------------------------------------
(* Values *)

Customers == {1, 2}
Admin == 3
AllUsers == Customers \cup {Admin}
ProductIds == {1, 2}
Sizes == {<<"M">>, <<"L">>}
OrderNumbers == {"ORD-a", "ORD-b"}
\* a query that finds no row: Python's None, in the shape of a products row
NoRow == [id |-> 0, name |-> <<>>, price |-> 0, sizes |-> <<>>]
Found(row) == row.id # 0
None == "None"

\* models.py: User.role, default UserRole.USER; no handler ever writes it
role(u) == IF u = Admin THEN "admin" ELSE "user"

\* models.py: OrderStatus, plus "closed" which the operator keyboard offers
Statuses == {"pending", "confirmed", "processing", "shipped", "delivered",
             "cancelled", "closed"}

-----------------------------------------------------------------------------
(* Text: a message text is a sequence of one-character strings *)

Digits == {"0", "1", "2", "3", "4", "5", "6", "7", "8", "9"}
Letters == {"a", "b", "c", "e", "l", "I", "v", "n", "P", "M", "s", "k"}
Whitespace == {" "}

RECURSIVE DropWhileSpace(_)
DropWhileSpace(t) ==
    IF t = <<>> THEN <<>>
    ELSE IF Head(t) \in Whitespace THEN DropWhileSpace(Tail(t)) ELSE t

RECURSIVE Reverse(_)
Reverse(t) == IF t = <<>> THEN <<>> ELSE Append(Reverse(Tail(t)), Head(t))

\* str.strip()
Strip(t) == Reverse(DropWhileSpace(Reverse(DropWhileSpace(t))))

\* re.sub(r'\D', '', phone)
RECURSIVE OnlyDigits(_)
OnlyDigits(t) ==
    IF t = <<>> THEN <<>>
    ELSE IF Head(t) \in Digits THEN <<Head(t)>> \o OnlyDigits(Tail(t))
         ELSE OnlyDigits(Tail(t))

DigitValue(c) ==
    CASE c = "0" -> 0 [] c = "1" -> 1 [] c = "2" -> 2 [] c = "3" -> 3
      [] c = "4" -> 4 [] c = "5" -> 5 [] c = "6" -> 6 [] c = "7" -> 7
      [] c = "8" -> 8 [] c = "9" -> 9

RECURSIVE DecimalValue(_, _)
DecimalValue(t, acc) ==
    IF t = <<>> THEN acc ELSE DecimalValue(Tail(t), 10 * acc + DigitValue(Head(t)))

\* int(message.text): surrounding whitespace and one sign are accepted
ParseInt(t) ==
    LET s == Strip(t)
        neg == s # <<>> /\ Head(s) = "-"
        body == IF s # <<>> /\ Head(s) \in {"-", "+"} THEN Tail(s) ELSE s
    IN IF body # <<>> /\ \A i \in 1..Len(body) : body[i] \in Digits
       THEN [ok |-> TRUE, value |-> IF neg THEN 0 - DecimalValue(body, 0)
                                           ELSE DecimalValue(body, 0)]
       ELSE [ok |-> FALSE, value |-> 0]

-----------------------------------------------------------------------------
(* OrderValidation *)

MinNameLen == 2
MaxNameLen == 100

validate_fullname(fullname) ==
    LET s == Strip(fullname)
    IN IF Len(s) < MinNameLen \/ Len(s) > MaxNameLen
       THEN [ok |-> FALSE, value |-> <<>>]
       ELSE IF ~ \A i \in 1..Len(s) : s[i] \in Letters \cup Whitespace \cup {"-"}
       THEN [ok |-> FALSE, value |-> <<>>]
       ELSE [ok |-> TRUE, value |-> s]

PhoneLengths == {10, 11}

validate_phone_min_only(phone) ==
    LET cleaned == OnlyDigits(phone)
    IN IF Len(cleaned) < 10
       THEN [ok |-> FALSE, value |-> <<>>]
       ELSE [ok |-> TRUE, value |-> cleaned]

validate_phone_keeps_text(phone) ==
    LET cleaned == OnlyDigits(phone)
    IN IF Len(cleaned) \notin PhoneLengths
       THEN [ok |-> FALSE, value |-> <<>>]
       ELSE [ok |-> TRUE, value |-> phone]

validate_phone(phone) ==
    LET cleaned == OnlyDigits(phone)
    IN IF Len(cleaned) \notin PhoneLengths
       THEN [ok |-> FALSE, value |-> <<>>]
       ELSE [ok |-> TRUE, value |-> cleaned]

validate_delivery_type_any(delivery_type) ==
    [ok |-> TRUE, value |-> delivery_type]

validate_delivery_type(delivery_type) ==
    IF delivery_type \notin {"cdek", "courier"}
    THEN [ok |-> FALSE, value |-> None]
    ELSE [ok |-> TRUE, value |-> delivery_type]

-----------------------------------------------------------------------------
(* Inputs: the texts and button payloads the handlers are driven with *)

T_ivan == <<"I", "v", "a", "n", " ", "P">>
T_abc == <<"a", "b", "c">>
T_a1 == <<"a", "1">>
T_phone == <<"+", "7", " ", "9", "9", "9", " ", "1", "2", "3", "-", "4", "5",
             "-", "6", "7">>
T_digits10 == <<"9", "9", "9", "1", "2", "3", "4", "5", "6", "7">>
T_digits12 == <<"9", "9", "9", "1", "2", "3", "4", "5", "6", "7", "8", "9">>
T_msk == <<"M", "s", "k">>
T_addr == <<"M", "s", "k", " ", "s", "-", "1", "2">>
T_1500 == <<"1", "5", "0", "0">>
T_cancel == <<"/", "c", "a", "n", "c", "e", "l">>

\* Python's None where a text is expected: message.text of a message that
\* carries no text (a photo, a sticker), a key of the FSM data never set
NoText == <<"None">>

NameTexts == {T_ivan, T_abc, T_a1}
PhoneTexts == {T_phone, T_digits10, T_digits12, T_abc}
CityTexts == {T_msk}
PvzTexts == {T_a1}
AddressTexts == {T_addr, T_abc, NoText}
PriceTexts == {T_1500, T_abc}
EditTexts == PriceTexts
DeliveryButtons == {"cdek", "courier", "post"}
QtyButtons == {1, 2}
\* the last field of a "qty:" callback payload as on_qty reads it with int();
\* qty_ikb offers 1 to 5, the handler takes whatever number arrives
QtyPayloads == {0, 1, 2}

\* FSM data of a user: state.get_data(); a key never set reads as None
EmptyData == [fullname |-> NoText, phone |-> NoText, delivery_type |-> None,
              cdek_city |-> NoText, cdek_pvz |-> NoText, address |-> NoText,
              edit_product_id |-> 0, edit_field |-> None]

Idle == [pc |-> "idle"]

\* the updates the dispatcher handles as tasks of one event loop
TaskIds == {1, 2, 3}
NoTask == [pc |-> "none"]

-----------------------------------------------------------------------------
(* Repositories *)

\* UserRepository.get_or_create_user
get_or_create_user(us, telegram_id) == us \cup {telegram_id}

\* UserRepository.is_admin
is_admin(us, telegram_id) == telegram_id \in us /\ role(telegram_id) = "admin"

\* ProductRepository.get_by_id
get_by_id(pr, product_id) ==
    IF product_id \in DOMAIN pr THEN pr[product_id] ELSE NoRow

\* the rows of cart_items that match (user, product, size)
CartMatches(c, user_id, product_id, size) ==
    {r \in c : r.user_id = user_id /\ r.product_id = product_id /\ r.size = size}

\* Query.first(): the matching row met first, by primary key
FirstRow(rows) == CHOOSE r \in rows : \A o \in rows : r.id <= o.id

\* quantity held for (user, product, size) before a call; 0 when there is no row
QuantityOf(c, user_id, product_id, size) ==
    LET m == CartMatches(c, user_id, product_id, size)
    IN IF m = {} THEN 0 ELSE FirstRow(m).quantity

add_to_cart_replaces(c, new_id, user_id, product_id, size, quantity) ==
    LET m == CartMatches(c, user_id, product_id, size)
    IN IF m # {}
       THEN (c \ {FirstRow(m)}) \cup {[FirstRow(m) EXCEPT !.quantity = quantity]}
       ELSE c \cup {[id |-> new_id, user_id |-> user_id, product_id |-> product_id,
                     size |-> size, quantity |-> quantity]}

add_to_cart_duplicates(c, new_id, user_id, product_id, size, quantity) ==
    c \cup {[id |-> new_id, user_id |-> user_id, product_id |-> product_id,
             size |-> size, quantity |-> quantity]}

\* CartRepository.add_to_cart: the table after the commit
add_to_cart(c, new_id, user_id, product_id, size, quantity) ==
    LET m == CartMatches(c, user_id, product_id, size)
    IN IF m # {}
       THEN (c \ {FirstRow(m)})
            \cup {[FirstRow(m) EXCEPT !.quantity = FirstRow(m).quantity + quantity]}
       ELSE c \cup {[id |-> new_id, user_id |-> user_id, product_id |-> product_id,
                     size |-> size, quantity |-> quantity]}

\* CartRepository.get_user_cart: the user's rows in primary-key order
RECURSIVE SortById(_)
SortById(rows) ==
    IF rows = {} THEN <<>>
    ELSE LET r == FirstRow(rows) IN <<r>> \o SortById(rows \ {r})

get_user_cart(c, user_id) == SortById({r \in c : r.user_id = user_id})

clear_cart_skipped(c, user_id) == c

\* CartRepository.clear_cart
clear_cart(c, user_id) == {r \in c : r.user_id # user_id}

\* CartRepository.remove_from_cart: the table after the commit
remove_from_cart_rows(c, user_id, product_id, size) ==
    c \ CartMatches(c, user_id, product_id, size)

\* CartRepository.update_cart_item: the table after the commit
update_cart_item_rows(c, user_id, product_id, size, quantity) ==
    LET m == CartMatches(c, user_id, product_id, size)
    IN IF m = {} THEN c
       ELSE IF quantity <= 0 THEN c \ {FirstRow(m)}
       ELSE (c \ {FirstRow(m)}) \cup {[FirstRow(m) EXCEPT !.quantity = quantity]}

-----------------------------------------------------------------------------
(* format_cart: what the cart view reports *)

RECURSIVE CartTotalFrom(_, _, _)
CartTotalFrom(pr, items, i) ==
    IF i > Len(items) THEN 0
    ELSE (IF Found(get_by_id(pr, items[i].product_id))
          THEN get_by_id(pr, items[i].product_id).price * items[i].quantity
          ELSE 0)
         + CartTotalFrom(pr, items, i + 1)

format_cart_first_line_only(us, pr, c, user_id) ==
    IF user_id \notin us THEN [kind |-> "no_user", total |-> 0]
    ELSE LET cart_items == get_user_cart(c, user_id)
         IN IF cart_items = <<>> THEN [kind |-> "empty", total |-> 0]
            ELSE [kind |-> "cart",
                  total |-> CartTotalFrom(pr, SubSeq(cart_items, 1, 1), 1)]

format_cart(us, pr, c, user_id) ==
    IF user_id \notin us THEN [kind |-> "no_user", total |-> 0]
    ELSE LET cart_items == get_user_cart(c, user_id)
         IN IF cart_items = <<>> THEN [kind |-> "empty", total |-> 0]
            ELSE [kind |-> "cart", total |-> CartTotalFrom(pr, cart_items, 1)]

\* the test both checkout entries make: "пуста" in cart_text
SaysEmpty(view) == view.kind = "empty"

-----------------------------------------------------------------------------
(* Initial state: an empty shop database holding the catalog and the       *)
(* operator's user row, an empty FSM storage                               *)

InitProducts ==
    (1 :> [id |-> 1, name |-> <<"A">>, price |-> 1000, sizes |-> <<<<"M">>>>]) @@
    (2 :> [id |-> 2, name |-> <<"B">>, price |-> 2000,
           sizes |-> <<<<"M">>, <<"L">>>>])

Init ==
    /\ users = {Admin}
    /\ products = InitProducts
    /\ cart = {}
    /\ next_cart_id = 1
    /\ orders = <<>>
    /\ order_items = <<>>
    /\ fsm = [u \in AllUsers |-> None]
    /\ data = [u \in AllUsers |-> EmptyData]
    /\ txn = Idle
    /\ tasks = [t \in TaskIds |-> NoTask]
    /\ last = [op |-> "init", user |-> 0, ok |-> TRUE, arg |-> <<>>]

\* no create_order is between flush and commit: the event loop is free
Free == txn.pc = "idle"

-----------------------------------------------------------------------------
(* Cart handlers of bot.py *)

\* @rate_limit: the decorated handler is not run at all
rate_limited(u) ==
    /\ Free
    /\ last' = [op |-> "rate_limited", user |-> u, ok |-> TRUE, arg |-> <<>>]
    /\ UNCHANGED <<tasks, users, products, cart, next_cart_id, orders, order_items,
                   fsm, data, txn>>

on_start(u) ==
    /\ Free
    /\ users' = get_or_create_user(users, u)
    /\ last' = [op |-> "on_start", user |-> u, ok |-> TRUE, arg |-> <<>>]
    /\ UNCHANGED <<tasks, products, cart, next_cart_id, orders, order_items, fsm, data, txn>>

on_qty(u, product_id, size, qty) ==
    /\ Free
    /\ IF ~Found(get_by_id(products, product_id))
       THEN /\ last' = [op |-> "on_qty", user |-> u, ok |-> FALSE, arg |-> <<>>]
            /\ UNCHANGED <<users, cart, next_cart_id>>
       ELSE /\ QuantityOf(cart, u, product_id, size) + qty <= MaxQty
            /\ next_cart_id <= MaxCartRows
            /\ users' = get_or_create_user(users, u)
            /\ cart' = add_to_cart(cart, next_cart_id, u, product_id, size, qty)
            /\ next_cart_id' = IF CartMatches(cart, u, product_id, size) = {}
                               THEN next_cart_id + 1 ELSE next_cart_id
            /\ last' = [op |-> "on_qty", user |-> u, ok |-> TRUE,
                        arg |-> [product_id |-> product_id, size |-> size,
                                 qty |-> qty,
                                 before |-> QuantityOf(cart, u, product_id, size)]]
    /\ UNCHANGED <<tasks, products, orders, order_items, fsm, data, txn>>

\* on_cart_action, action == "clear"
on_cart_clear(u) ==
    /\ Free
    /\ users' = get_or_create_user(users, u)
    /\ cart' = clear_cart(cart, u)
    /\ last' = [op |-> "on_cart_clear", user |-> u, ok |-> TRUE, arg |-> <<>>]
    /\ UNCHANGED <<tasks, products, next_cart_id, orders, order_items, fsm, data, txn>>

on_remove_item_unfiltered(u, cart_item_id) ==
    /\ Free
    /\ IF cart # {}
       THEN /\ cart' = cart \ {FirstRow(cart)}
            /\ users' = get_or_create_user(users, u)
       ELSE UNCHANGED <<cart, users>>
    /\ last' = [op |-> "on_remove_item", user |-> u, ok |-> TRUE, arg |-> <<>>]
    /\ UNCHANGED <<tasks, products, next_cart_id, orders, order_items, fsm, data, txn>>

on_remove_item(u, cart_item_id) ==
    /\ Free
    /\ IF \E r \in cart : r.id = cart_item_id
       THEN /\ cart' = {r \in cart : r.id # cart_item_id}
            /\ users' = get_or_create_user(users, u)
       ELSE UNCHANGED <<cart, users>>
    /\ last' = [op |-> "on_remove_item", user |-> u, ok |-> TRUE, arg |-> <<>>]
    /\ UNCHANGED <<tasks, products, next_cart_id, orders, order_items, fsm, data, txn>>

\* CartRepository.remove_from_cart, called on the repository
remove_from_cart(u, product_id, size) ==
    /\ Free
    /\ cart' = remove_from_cart_rows(cart, u, product_id, size)
    /\ last' = [op |-> "remove_from_cart", user |-> u, ok |-> TRUE, arg |-> <<>>]
    /\ UNCHANGED <<tasks, users, products, next_cart_id, orders, order_items,
                   fsm, data, txn>>

\* CartRepository.update_cart_item, called on the repository
update_cart_item(u, product_id, size, quantity) ==
    /\ Free
    /\ quantity <= MaxQty
    /\ cart' = update_cart_item_rows(cart, u, product_id, size, quantity)
    /\ last' = [op |-> "update_cart_item", user |-> u,
                ok |-> CartMatches(cart, u, product_id, size) # {},
                arg |-> <<>>]
    /\ UNCHANGED <<tasks, users, products, next_cart_id, orders, order_items,
                   fsm, data, txn>>

-----------------------------------------------------------------------------
(* on_qty as a task of the event loop: the handler is suspended at its      *)
(* awaits, rate_limiter.check_limit before the database block and the       *)
(* answers after it; the database block itself holds no await               *)

SessionView_at_entry(at_entry, now) == at_entry

\* what the queries of the handler's session return: the rows committed when
\* the query runs, not the rows there were when the handler was entered
SessionView(at_entry, now) == now

\* the one row add_to_cart inserts or updates, given the rows its query saw
WrittenRow(seen, new_id, user_id, product_id, size, quantity) ==
    CHOOSE r \in add_to_cart(seen, new_id, user_id, product_id, size, quantity) :
        r \notin seen

\* db.commit() of one inserted or updated row: the row replaces the row of
\* the same primary key
WithRow(c, row) == {r \in c : r.id # row.id} \cup {row}

\* the update reaches the handler: rate_limit lets it pass
on_qty_begin(t, u, product_id, size, qty) ==
    /\ Free
    /\ tasks[t].pc = "none"
    /\ tasks' = [tasks EXCEPT ![t] = [pc |-> "entered", user |-> u,
                                      product_id |-> product_id, size |-> size,
                                      qty |-> qty, at_entry |-> cart]]
    /\ UNCHANGED <<users, products, cart, next_cart_id, orders, order_items,
                   fsm, data, txn, last>>

\* the database block: get_by_id, get_or_create_user, add_to_cart
on_qty_db(t) ==
    LET task == tasks[t]
        seen == SessionView(task.at_entry, cart)
        row == WrittenRow(seen, next_cart_id, task.user, task.product_id,
                          task.size, task.qty)
    IN /\ Free
       /\ task.pc = "entered"
       /\ IF ~Found(get_by_id(products, task.product_id))
          THEN /\ tasks' = [tasks EXCEPT ![t].pc = "done", ![t].qty = 0]
               /\ UNCHANGED <<users, cart, next_cart_id>>
          ELSE /\ QuantityOf(seen, task.user, task.product_id, task.size)
                    + task.qty <= MaxQty
               /\ next_cart_id <= MaxCartRows
               /\ users' = get_or_create_user(users, task.user)
               /\ cart' = WithRow(cart, row)
               /\ next_cart_id' = IF row.id = next_cart_id
                                   THEN next_cart_id + 1 ELSE next_cart_id
               /\ tasks' = [tasks EXCEPT ![t].pc = "answering"]
       /\ UNCHANGED <<products, orders, order_items, fsm, data, txn, last>>

\* cb.message.answer and cb.answer have been awaited: the handler returns
on_qty_answer(t) ==
    /\ Free
    /\ tasks[t].pc = "answering"
    /\ tasks' = [tasks EXCEPT ![t].pc = "done"]
    /\ last' = [op |-> "on_qty_answer", user |-> tasks[t].user, ok |-> TRUE,
                arg |-> <<>>]
    /\ UNCHANGED <<users, products, cart, next_cart_id, orders, order_items,
                   fsm, data, txn>>

-----------------------------------------------------------------------------
(* Catalog handlers of admin_panel_v_2.py *)

\* message.text.split(","): the pieces between commas
RECURSIVE SplitComma(_, _)
SplitComma(t, piece) ==
    IF t = <<>> THEN <<piece>>
    ELSE IF Head(t) = "," THEN <<piece>> \o SplitComma(Tail(t), <<>>)
         ELSE SplitComma(Tail(t), Append(piece, Head(t)))

RECURSIVE StripNonEmpty(_)
StripNonEmpty(pieces) ==
    IF pieces = <<>> THEN <<>>
    ELSE IF Strip(Head(pieces)) # <<>>
         THEN <<Strip(Head(pieces))>> \o StripNonEmpty(Tail(pieces))
         ELSE StripNonEmpty(Tail(pieces))

\* [s.strip() for s in message.text.split(",") if s.strip()]
ParseSizes(t) == StripNonEmpty(SplitComma(t, <<>>))

\* rows of cart_items and order_items that hold the product's key; both
\* columns are NOT NULL and the relationships of Product carry no delete cascade
Referenced(c, ois, product_id) ==
    \/ \E r \in c : r.product_id = product_id
    \/ \E i \in 1..Len(ois) : ois[i].product_id = product_id

adm_prod_delete_cascades(a, pid) ==
    /\ Free
    /\ IF /\ is_admin(users, a)
          /\ Found(get_by_id(products, pid))
       THEN /\ products' = [p \in DOMAIN products \ {pid} |-> products[p]]
            /\ cart' = {r \in cart : r.product_id # pid}
            /\ order_items' = SelectSeq(order_items,
                                        LAMBDA it : it.product_id # pid)
       ELSE UNCHANGED <<products, cart, order_items>>
    /\ last' = [op |-> "adm_prod_delete", user |-> a, ok |-> TRUE, arg |-> <<>>]
    /\ UNCHANGED <<tasks, users, next_cart_id, orders, fsm, data, txn>>

adm_prod_delete(a, pid) ==
    /\ Free
    /\ IF /\ is_admin(users, a)
          /\ Found(get_by_id(products, pid))
          /\ ~Referenced(cart, order_items, pid)
       THEN products' = [p \in DOMAIN products \ {pid} |-> products[p]]
       ELSE UNCHANGED products
    /\ last' = [op |-> "adm_prod_delete", user |-> a, ok |-> TRUE, arg |-> <<>>]
    /\ UNCHANGED <<tasks, users, cart, next_cart_id, orders, order_items, fsm, data, txn>>

adm_prod_edit_field(a, pid, field) ==
    /\ Free
    /\ data' = [data EXCEPT ![a].edit_product_id = pid, ![a].edit_field = field]
    /\ fsm' = [fsm EXCEPT ![a] = "AdminProductEditFSM:new_value"]
    /\ last' = [op |-> "adm_prod_edit_field", user |-> a,
                ok |-> TRUE, arg |-> <<>>]
    /\ UNCHANGED <<tasks, users, products, cart, next_cart_id, orders, order_items, txn>>

\* the products table after adm_prod_apply_edit has committed
EditedProducts(pr, pid, field, text) ==
    CASE field = "price" -> [pr EXCEPT ![pid].price = ParseInt(text).value]
      [] field = "sizes" -> [pr EXCEPT ![pid].sizes = ParseSizes(text)]
      [] field = "name" -> [pr EXCEPT ![pid].name = text]
      [] OTHER -> pr

adm_prod_apply_edit_reprices(a, text) ==
    LET pid == data[a].edit_product_id
        field == data[a].edit_field
    IN /\ Free
       /\ fsm[a] = "AdminProductEditFSM:new_value"
       /\ Found(get_by_id(products, pid))
       /\ field = "price" /\ ParseInt(text).ok
       /\ products' = EditedProducts(products, pid, field, text)
       /\ order_items' = [i \in 1..Len(order_items) |->
              IF order_items[i].product_id = pid
              THEN [order_items[i] EXCEPT !.price = ParseInt(text).value]
              ELSE order_items[i]]
       /\ fsm' = [fsm EXCEPT ![a] = None]
       /\ data' = [data EXCEPT ![a] = EmptyData]
       /\ last' = [op |-> "adm_prod_apply_edit", user |-> a,
                   ok |-> TRUE, arg |-> <<>>]
       /\ UNCHANGED <<tasks, users, cart, next_cart_id, orders, txn>>

adm_prod_apply_edit(a, text) ==
    LET pid == data[a].edit_product_id
        field == data[a].edit_field
    IN /\ Free
       /\ fsm[a] = "AdminProductEditFSM:new_value"
       /\ IF ~Found(get_by_id(products, pid))
          THEN /\ fsm' = [fsm EXCEPT ![a] = None]
               /\ data' = [data EXCEPT ![a] = EmptyData]
               /\ last' = [op |-> "adm_prod_apply_edit", user |-> a,
                           ok |-> FALSE, arg |-> <<>>]
               /\ UNCHANGED products
          ELSE IF field = "price" /\ ~ParseInt(text).ok
          THEN /\ last' = [op |-> "adm_prod_apply_edit", user |-> a,
                           ok |-> FALSE, arg |-> <<>>]
               /\ UNCHANGED <<products, fsm, data>>
          ELSE /\ products' = EditedProducts(products, pid, field, text)
               /\ fsm' = [fsm EXCEPT ![a] = None]
               /\ data' = [data EXCEPT ![a] = EmptyData]
               /\ last' = [op |-> "adm_prod_apply_edit", user |-> a,
                           ok |-> TRUE, arg |-> <<>>]
       /\ UNCHANGED <<tasks, users, cart, next_cart_id, orders, order_items, txn>>

-----------------------------------------------------------------------------
(* Order status *)

\* OrderRepository.get_order_by_id: Order.id is the position in the table
HasOrder(os, order_id) == order_id \in 1..Len(os)

\* OrderRepository.update_order_status: the table after the commit
update_order_status(os, order_id, status) ==
    IF HasOrder(os, order_id) THEN [os EXCEPT ![order_id].status = status] ELSE os

cancel_order_row_deletes(os, order_id) ==
    IF HasOrder(os, order_id)
    THEN SubSeq(os, 1, order_id - 1) \o SubSeq(os, order_id + 1, Len(os))
    ELSE os

\* OrderRepository.cancel_order
cancel_order_row(os, order_id) == update_order_status(os, order_id, "cancelled")

\* the statuses from which on_order_cancel goes on to cancel
CancellableStatuses == {"pending", "confirmed"}

Cancellable_any_status(status) == TRUE

Cancellable(status) == status \in CancellableStatuses

on_order_cancel(u, order_id) ==
    /\ Free
    /\ IF ~HasOrder(orders, order_id)
       THEN /\ last' = [op |-> "on_order_cancel", user |-> u,
                        ok |-> FALSE, arg |-> <<>>]
            /\ UNCHANGED orders
       ELSE IF ~Cancellable(orders[order_id].status)
       THEN /\ last' = [op |-> "on_order_cancel", user |-> u,
                        ok |-> FALSE, arg |-> <<>>]
            /\ UNCHANGED orders
       ELSE /\ orders' = cancel_order_row(orders, order_id)
            /\ last' = [op |-> "on_order_cancel", user |-> u,
                        ok |-> TRUE, arg |-> <<>>]
    /\ UNCHANGED <<tasks, users, products, cart, next_cart_id, order_items, fsm, data, txn>>

adm_order_set_status(a, oid, new_status) ==
    /\ Free
    /\ IF ~HasOrder(orders, oid)
       THEN UNCHANGED orders
       ELSE orders' = [orders EXCEPT ![oid].status = new_status]
    /\ last' = [op |-> "adm_order_set_status", user |-> a,
                ok |-> TRUE, arg |-> <<>>]
    /\ UNCHANGED <<tasks, users, products, cart, next_cart_id, order_items, fsm, data, txn>>

-----------------------------------------------------------------------------
(* Checkout conversation: the OrderFSM handlers of bot.py *)

\* on_checkout (/checkout) and on_cart_action with action == "checkout"
StartCheckout(op, u) ==
    LET view == format_cart(users, products, cart, u)
    IN /\ Free
       /\ IF SaysEmpty(view)
          THEN UNCHANGED fsm
          ELSE fsm' = [fsm EXCEPT ![u] = "waiting_fullname"]
       /\ last' = [op |-> op, user |-> u, ok |-> ~SaysEmpty(view), arg |-> <<>>]
       /\ UNCHANGED <<tasks, users, products, cart, next_cart_id, orders, order_items,
                      data, txn>>

on_checkout(u) == StartCheckout("on_checkout", u)

cart_checkout(u) == StartCheckout("cart_checkout", u)

on_fullname(u, text) ==
    /\ Free
    /\ fsm[u] = "waiting_fullname"
    /\ IF ~validate_fullname(text).ok
       THEN UNCHANGED <<fsm, data>>
       ELSE /\ data' = [data EXCEPT ![u].fullname = validate_fullname(text).value]
            /\ fsm' = [fsm EXCEPT ![u] = "waiting_phone"]
    /\ last' = [op |-> "on_fullname", user |-> u,
                ok |-> validate_fullname(text).ok, arg |-> <<>>]
    /\ UNCHANGED <<tasks, users, products, cart, next_cart_id, orders, order_items, txn>>

on_phone(u, text) ==
    /\ Free
    /\ fsm[u] = "waiting_phone"
    /\ IF ~validate_phone(text).ok
       THEN UNCHANGED <<fsm, data>>
       ELSE /\ data' = [data EXCEPT ![u].phone = validate_phone(text).value]
            /\ fsm' = [fsm EXCEPT ![u] = "waiting_delivery_type"]
    /\ last' = [op |-> "on_phone", user |-> u,
                ok |-> validate_phone(text).ok, arg |-> <<>>]
    /\ UNCHANGED <<tasks, users, products, cart, next_cart_id, orders, order_items, txn>>

on_delivery_type(u, delivery_type) ==
    /\ Free
    /\ fsm[u] = "waiting_delivery_type"
    /\ IF ~validate_delivery_type(delivery_type).ok
       THEN UNCHANGED <<fsm, data>>
       ELSE /\ data' = [data EXCEPT ![u].delivery_type =
                                        validate_delivery_type(delivery_type).value]
            /\ fsm' = [fsm EXCEPT ![u] = IF delivery_type = "cdek"
                                         THEN "waiting_cdek_city"
                                         ELSE "waiting_address"]
    /\ last' = [op |-> "on_delivery_type", user |-> u,
                ok |-> validate_delivery_type(delivery_type).ok, arg |-> <<>>]
    /\ UNCHANGED <<tasks, users, products, cart, next_cart_id, orders, order_items, txn>>

on_cdek_city(u, text) ==
    /\ Free
    /\ fsm[u] = "waiting_cdek_city"
    /\ data' = [data EXCEPT ![u].cdek_city = text]
    /\ fsm' = [fsm EXCEPT ![u] = "waiting_cdek_pvz"]
    /\ last' = [op |-> "on_cdek_city", user |-> u, ok |-> TRUE, arg |-> <<>>]
    /\ UNCHANGED <<tasks, users, products, cart, next_cart_id, orders, order_items, txn>>

on_cdek_pvz(u, text) ==
    /\ Free
    /\ fsm[u] = "waiting_cdek_pvz"
    /\ data' = [data EXCEPT ![u].cdek_pvz = text]
    /\ fsm' = [fsm EXCEPT ![u] = "confirm"]
    /\ last' = [op |-> "on_cdek_pvz", user |-> u, ok |-> TRUE, arg |-> <<>>]
    /\ UNCHANGED <<tasks, users, products, cart, next_cart_id, orders, order_items, txn>>

on_address_shared_data(u, text) ==
    /\ Free
    /\ fsm[u] = "waiting_address"
    /\ data' = [x \in AllUsers |-> [data[x] EXCEPT !.address = text]]
    /\ fsm' = [fsm EXCEPT ![u] = "confirm"]
    /\ last' = [op |-> "on_address", user |-> u, ok |-> TRUE, arg |-> <<>>]
    /\ UNCHANGED <<tasks, users, products, cart, next_cart_id, orders, order_items, txn>>

on_address(u, text) ==
    /\ Free
    /\ fsm[u] = "waiting_address"
    /\ data' = [data EXCEPT ![u].address = text]
    /\ fsm' = [fsm EXCEPT ![u] = "confirm"]
    /\ last' = [op |-> "on_address", user |-> u, ok |-> TRUE, arg |-> <<>>]
    /\ UNCHANGED <<tasks, users, products, cart, next_cart_id, orders, order_items, txn>>

confirm_cancel_clears_cart(u) ==
    /\ Free
    /\ fsm[u] = "confirm"
    /\ fsm' = [fsm EXCEPT ![u] = None]
    /\ data' = [data EXCEPT ![u] = EmptyData]
    /\ cart' = clear_cart(cart, u)
    /\ last' = [op |-> "confirm_cancel", user |-> u, ok |-> TRUE, arg |-> <<>>]
    /\ UNCHANGED <<tasks, users, products, next_cart_id, orders, order_items, txn>>

\* cancel_order: the confirm:cancel button
confirm_cancel(u) ==
    /\ Free
    /\ fsm[u] = "confirm"
    /\ fsm' = [fsm EXCEPT ![u] = None]
    /\ data' = [data EXCEPT ![u] = EmptyData]
    /\ last' = [op |-> "confirm_cancel", user |-> u, ok |-> TRUE, arg |-> <<>>]
    /\ UNCHANGED <<tasks, users, products, cart, next_cart_id, orders, order_items, txn>>

\* the confirm:edit button of confirm_ikb: the callback handlers registered
\* for OrderFSM.confirm filter on "confirm:yes" and "confirm:cancel", no
\* other callback handler's filter passes "confirm:edit", and the dispatcher
\* drops an update no handler takes
confirm_edit(u) ==
    /\ Free
    /\ fsm[u] = "confirm"
    /\ last' = [op |-> "confirm_edit", user |-> u, ok |-> FALSE, arg |-> <<>>]
    /\ UNCHANGED <<tasks, users, products, cart, next_cart_id, orders, order_items,
                   fsm, data, txn>>

\* the states whose own message handler is registered before cancel_handler
\* and so receives the text "/cancel" itself
MessageStates == {"waiting_fullname", "waiting_phone", "waiting_cdek_city",
                  "waiting_cdek_pvz", "waiting_address",
                  "AdminProductEditFSM:new_value"}

\* cancel_handler: /cancel
cancel_handler(u) ==
    /\ Free
    /\ fsm[u] \notin MessageStates
    /\ IF fsm[u] = None
       THEN UNCHANGED <<fsm, data>>
       ELSE /\ fsm' = [fsm EXCEPT ![u] = None]
            /\ data' = [data EXCEPT ![u] = EmptyData]
    /\ last' = [op |-> "cancel_handler", user |-> u, ok |-> TRUE, arg |-> <<>>]
    /\ UNCHANGED <<tasks, users, products, cart, next_cart_id, orders, order_items, txn>>

\* the states of OrderFSM
OrderFSM == {"waiting_fullname", "waiting_phone", "waiting_delivery_type",
             "waiting_cdek_city", "waiting_cdek_pvz", "waiting_address",
             "confirm"}

\* the message "/cancel": the dispatcher hands it to the first registered
\* message handler whose filters pass, and the handlers of the OrderFSM
\* message states are registered before cancel_handler
send_cancel(u) ==
    IF fsm[u] = "waiting_fullname" THEN on_fullname(u, T_cancel)
    ELSE IF fsm[u] = "waiting_phone" THEN on_phone(u, T_cancel)
    ELSE IF fsm[u] = "waiting_cdek_city" THEN on_cdek_city(u, T_cancel)
    ELSE IF fsm[u] = "waiting_cdek_pvz" THEN on_cdek_pvz(u, T_cancel)
    ELSE IF fsm[u] = "waiting_address" THEN on_address(u, T_cancel)
    ELSE cancel_handler(u)

-----------------------------------------------------------------------------
(* confirm_order and OrderRepository.create_order *)

\* OrderRepository.get_user_orders: the user's orders, the newest first
get_user_orders(os, user_id) ==
    Reverse(SelectSeq(os, LAMBDA o : o.user_id = user_id))

NumberTaken_no_constraint(os, order_number) == FALSE

\* the unique constraint on orders.order_number
NumberTaken(os, order_number) ==
    \E i \in 1..Len(os) : os[i].order_number = order_number

\* confirm_order: delivery_data built from the FSM data
DeliveryData(d) ==
    IF d.delivery_type = "cdek"
    THEN [city |-> d.cdek_city, pvz |-> d.cdek_pvz]
    ELSE [address |-> d.address]

\* create_order: the Order row added to the session; status takes the column default
NewOrder(os, user_id, order_number, d) ==
    [id |-> Len(os) + 1, user_id |-> user_id, order_number |-> order_number,
     status |-> "pending", total_amount |-> 0, fullname |-> d.fullname,
     phone |-> d.phone, delivery_type |-> d.delivery_type,
     delivery_address |-> DeliveryData(d)]

OrderItemOf_unit_quantity(pr, order_id, cart_item) ==
    LET product == get_by_id(pr, cart_item.product_id)
    IN [order_id |-> order_id, product_id |-> cart_item.product_id,
        product_name |-> product.name, size |-> cart_item.size,
        price |-> product.price, quantity |-> 1, total |-> product.price]

\* create_order: the OrderItem row made from one cart row and its product
OrderItemOf(pr, order_id, cart_item) ==
    LET product == get_by_id(pr, cart_item.product_id)
        product_total == product.price * cart_item.quantity
    IN [order_id |-> order_id, product_id |-> cart_item.product_id,
        product_name |-> product.name, size |-> cart_item.size,
        price |-> product.price, quantity |-> cart_item.quantity,
        total |-> product_total]


Flushed_autocommit(os, order) == Append(os, order)

\* db.flush(): the committed orders table once the INSERT has been sent; the
\* row stays inside the session's transaction until db.commit()
Flushed(os, order) == os

WithTotal_left_zero(order, total_amount) == order

\* order.total_amount = total_amount
WithTotal(order, total_amount) == [order EXCEPT !.total_amount = total_amount]

\* db.commit(): the committed orders table
Committed(os, order) ==
    IF \E i \in 1..Len(os) : os[i].id = order.id
    THEN [i \in 1..Len(os) |-> IF os[i].id = order.id THEN order ELSE os[i]]
    ELSE Append(os, order)

\* state.clear()
Cleared(f, u) == [f EXCEPT ![u] = None]
ClearedData(d, u) == [d EXCEPT ![u] = EmptyData]

confirm_order_no_recheck(u, order_number) ==
    LET cart_items == get_user_cart(cart, u)
    IN /\ Free
       /\ fsm[u] = "confirm"
       /\ users' = get_or_create_user(users, u)
       /\ IF FALSE
          THEN /\ fsm' = Cleared(fsm, u)
               /\ data' = ClearedData(data, u)
               /\ last' = [op |-> "confirm_order", user |-> u, ok |-> FALSE,
                           arg |-> [result |-> "empty_cart", order_id |-> 0]]
               /\ UNCHANGED <<txn, orders>>
          ELSE IF NumberTaken(orders, order_number)
          THEN /\ fsm' = Cleared(fsm, u)
               /\ data' = ClearedData(data, u)
               /\ last' = [op |-> "confirm_order", user |-> u, ok |-> FALSE,
                           arg |-> [result |-> "error",
                                    order_id |-> Len(orders) + 1]]
               /\ UNCHANGED <<txn, orders>>
          ELSE /\ Len(get_user_orders(orders, u)) < MaxOrders
               /\ txn' = [pc |-> "flushed", user |-> u, cart_items |-> cart_items,
                          order |-> NewOrder(orders, u, order_number, data[u]),
                          items |-> <<>>, total_amount |-> 0,
                          n_before |-> Len(orders)]
               /\ orders' = Flushed(orders, NewOrder(orders, u, order_number, data[u]))
               /\ last' = [op |-> "confirm_order", user |-> u, ok |-> TRUE,
                           arg |-> [result |-> "running",
                                    order_id |-> Len(orders) + 1]]
               /\ UNCHANGED <<fsm, data>>
       /\ UNCHANGED <<tasks, products, cart, next_cart_id, order_items>>

\* confirm_order up to db.flush() in create_order; order_number is what
\* generate_order_number returned
confirm_order(u, order_number) ==
    LET cart_items == get_user_cart(cart, u)
    IN /\ Free
       /\ fsm[u] = "confirm"
       /\ users' = get_or_create_user(users, u)
       /\ IF cart_items = <<>>
          THEN /\ fsm' = Cleared(fsm, u)
               /\ data' = ClearedData(data, u)
               /\ last' = [op |-> "confirm_order", user |-> u, ok |-> FALSE,
                           arg |-> [result |-> "empty_cart", order_id |-> 0]]
               /\ UNCHANGED <<txn, orders>>
          ELSE IF NumberTaken(orders, order_number)
          THEN /\ fsm' = Cleared(fsm, u)
               /\ data' = ClearedData(data, u)
               /\ last' = [op |-> "confirm_order", user |-> u, ok |-> FALSE,
                           arg |-> [result |-> "error",
                                    order_id |-> Len(orders) + 1]]
               /\ UNCHANGED <<txn, orders>>
          ELSE /\ Len(get_user_orders(orders, u)) < MaxOrders
               /\ txn' = [pc |-> "flushed", user |-> u, cart_items |-> cart_items,
                          order |-> NewOrder(orders, u, order_number, data[u]),
                          items |-> <<>>, total_amount |-> 0,
                          n_before |-> Len(orders)]
               /\ orders' = Flushed(orders, NewOrder(orders, u, order_number, data[u]))
               /\ last' = [op |-> "confirm_order", user |-> u, ok |-> TRUE,
                           arg |-> [result |-> "running",
                                    order_id |-> Len(orders) + 1]]
               /\ UNCHANGED <<fsm, data>>
       /\ UNCHANGED <<tasks, products, cart, next_cart_id, order_items>>

\* create_order: one round of the loop over cart_items
create_order_add_item ==
    /\ txn.pc = "flushed"
    /\ Len(txn.items) < Len(txn.cart_items)
    /\ LET order_item == OrderItemOf(products, txn.order.id,
                                     txn.cart_items[Len(txn.items) + 1])
       IN txn' = [txn EXCEPT !.items = Append(@, order_item),
                             !.total_amount = @ + order_item.total]
    /\ UNCHANGED <<tasks, users, products, cart, next_cart_id, orders, order_items,
                   fsm, data, last>>

\* create_order: order.total_amount = total_amount; db.commit()
create_order_commit ==
    /\ txn.pc = "flushed"
    /\ Len(txn.items) = Len(txn.cart_items)
    /\ orders' = Committed(orders, WithTotal(txn.order, txn.total_amount))
    /\ order_items' = order_items \o txn.items
    /\ txn' = [txn EXCEPT !.pc = "committed"]
    /\ UNCHANGED <<tasks, users, products, cart, next_cart_id, fsm, data, last>>

\* create_order: clear_user_cart, return; confirm_order: answer, state.clear()
create_order_clear_cart ==
    /\ txn.pc = "committed"
    /\ cart' = clear_cart(cart, txn.user)
    /\ fsm' = Cleared(fsm, txn.user)
    /\ data' = ClearedData(data, txn.user)
    /\ last' = [op |-> "confirm_order", user |-> txn.user, ok |-> TRUE,
                arg |-> [result |-> "ok", order_id |-> txn.order.id]]
    /\ txn' = Idle
    /\ UNCHANGED <<tasks, users, products, next_cart_id, orders, order_items>>

\* an exception between db.flush() and the end of db.commit(): the except
\* branch of confirm_order, the session closed without commit, state.clear()
create_order_fail ==
    /\ txn.pc = "flushed"
    /\ fsm' = Cleared(fsm, txn.user)
    /\ data' = ClearedData(data, txn.user)
    /\ last' = [op |-> "confirm_order", user |-> txn.user, ok |-> FALSE,
                arg |-> [result |-> "error", order_id |-> txn.order.id]]
    /\ txn' = Idle
    /\ UNCHANGED <<tasks, users, products, cart, next_cart_id, orders, order_items>>

clear_cart_fail_rolls_back ==
    /\ txn.pc = "committed"
    /\ orders' = SelectSeq(orders, LAMBDA o : o.id # txn.order.id)
    /\ order_items' = SelectSeq(order_items,
                                LAMBDA it : it.order_id # txn.order.id)
    /\ fsm' = Cleared(fsm, txn.user)
    /\ data' = ClearedData(data, txn.user)
    /\ last' = [op |-> "confirm_order", user |-> txn.user, ok |-> FALSE,
                arg |-> [result |-> "error_after_commit", order_id |-> txn.order.id]]
    /\ txn' = Idle
    /\ UNCHANGED <<tasks, users, products, cart, next_cart_id>>

\* an exception in clear_user_cart, after db.commit() of the order
clear_cart_fail ==
    /\ txn.pc = "committed"
    /\ fsm' = Cleared(fsm, txn.user)
    /\ data' = ClearedData(data, txn.user)
    /\ last' = [op |-> "confirm_order", user |-> txn.user, ok |-> FALSE,
                arg |-> [result |-> "error_after_commit", order_id |-> txn.order.id]]
    /\ txn' = Idle
    /\ UNCHANGED <<tasks, users, products, cart, next_cart_id, orders, order_items>>

\* create_order has returned and cb.message.answer("Заказ принят") raises
\* inside the try block: the except branch of confirm_order answers with the
\* order-creation error.  When that answer is delivered, state.clear() runs;
\* when it raises as well, the exception leaves confirm_order before
\* state.clear() and safe_db_operation swallows it
order_answer_fail(error_answer_fails) ==
    /\ txn.pc = "committed"
    /\ cart' = clear_cart(cart, txn.user)
    /\ IF error_answer_fails
       THEN /\ UNCHANGED <<fsm, data>>
            /\ last' = [op |-> "confirm_order", user |-> txn.user, ok |-> FALSE,
                        arg |-> [result |-> "unanswered",
                                 order_id |-> txn.order.id]]
       ELSE /\ fsm' = Cleared(fsm, txn.user)
            /\ data' = ClearedData(data, txn.user)
            /\ last' = [op |-> "confirm_order", user |-> txn.user, ok |-> FALSE,
                        arg |-> [result |-> "error_after_commit",
                                 order_id |-> txn.order.id]]
    /\ txn' = Idle
    /\ UNCHANGED <<tasks, users, products, next_cart_id, orders, order_items>>

-----------------------------------------------------------------------------
(* confirm_order as a task of the event loop.  The dispatcher tests the     *)
(* filter OrderFSM.confirm when it takes the update; the handler is         *)
(* suspended at its awaits, before the database block (rate_limit,          *)
(* state.get_data) and after it (the answer, state.clear); the database     *)
(* block itself, create_order and clear_user_cart included, holds no await. *)
(* The database calls of these tasks succeed, but for the unique            *)
(* constraint on the order number.                                          *)

\* create_order: the OrderItem rows of the loop over cart_items
OrderItemsOf(pr, order_id, cart_items) ==
    [k \in 1..Len(cart_items) |-> OrderItemOf(pr, order_id, cart_items[k])]

\* create_order: total_amount after the loop
RECURSIVE TotalAmount(_)
TotalAmount(items) ==
    IF items = <<>> THEN 0 ELSE Head(items).total + TotalAmount(Tail(items))

\* the update reaches the handler: the filter passes, state.get_data()
confirm_begin(t, u) ==
    /\ Free
    /\ tasks[t].pc = "none"
    /\ fsm[u] = "confirm"
    /\ tasks' = [tasks EXCEPT ![t] = [pc |-> "entered", user |-> u,
                                      draft |-> data[u], made |-> 0,
                                      cart_ids |-> {}]]
    /\ UNCHANGED <<users, products, cart, next_cart_id, orders, order_items,
                   fsm, data, txn, last>>

\* the database block: get_or_create_user, get_user_cart, create_order
confirm_db(t, order_number) ==
    LET task == tasks[t]
        u == task.user
        cart_items == get_user_cart(cart, u)
        order == NewOrder(orders, u, order_number, task.draft)
        items == OrderItemsOf(products, order.id, cart_items)
    IN /\ Free
       /\ task.pc = "entered"
       /\ users' = get_or_create_user(users, u)
       /\ IF cart_items = <<>> \/ NumberTaken(orders, order_number)
          THEN /\ tasks' = [tasks EXCEPT ![t].pc = "answering"]
               /\ UNCHANGED <<orders, order_items, cart>>
          ELSE /\ orders' = Committed(orders, WithTotal(order, TotalAmount(items)))
               /\ order_items' = order_items \o items
               /\ cart' = clear_cart(cart, u)
               /\ tasks' = [tasks EXCEPT ![t].pc = "answering",
                                         ![t].made = order.id,
                                         ![t].cart_ids =
                                             {cart_items[k].id :
                                                 k \in 1..Len(cart_items)}]
       /\ UNCHANGED <<products, next_cart_id, fsm, data, txn, last>>

\* the answer has been awaited: state.clear(), cb.answer(), return
confirm_finish(t) ==
    /\ Free
    /\ tasks[t].pc = "answering"
    /\ fsm' = Cleared(fsm, tasks[t].user)
    /\ data' = ClearedData(data, tasks[t].user)
    /\ tasks' = [tasks EXCEPT ![t].pc = "done"]
    /\ last' = [op |-> "confirm_finish", user |-> tasks[t].user,
                ok |-> tasks[t].made # 0, arg |-> <<>>]
    /\ UNCHANGED <<users, products, cart, next_cart_id, orders, order_items, txn>>

-----------------------------------------------------------------------------
(* Order lists: on_orders of bot.py, the operator's list of admin_panel_v_2 *)

PerPage == 10

Min(a, b) == IF a < b THEN a ELSE b

paginate_inclusive_end(items, page, per_page) ==
    LET start == page * per_page
        end == start + per_page + 1
    IN [slice |-> IF start >= Len(items) THEN <<>>
                  ELSE SubSeq(items, start + 1, Min(end, Len(items))),
        total |-> Len(items)]

\* paginate: items[start:end] and len(items)
paginate(items, page, per_page) ==
    LET start == page * per_page
        end == start + per_page
    IN [slice |-> IF start >= Len(items) THEN <<>>
                  ELSE SubSeq(items, start + 1, Min(end, Len(items))),
        total |-> Len(items)]

\* _render_orders: the query, ordered by created_at descending and filtered
\* by status when one is given; orders are created one after the other, so
\* created_at grows with Order.id
OrdersQuery(os, status) ==
    Reverse(SelectSeq(os, LAMBDA o : status = None \/ o.status = status))

\* the ids of a sequence of order rows, in their order
IdsOf(rows) == [i \in 1..Len(rows) |-> rows[i].id]

\* _render_orders, called by adm_order_list (status None) and adm_order_filter
render_orders(op, a, page, status) ==
    /\ Free
    /\ IF ~is_admin(users, a)
       THEN last' = [op |-> op, user |-> a, ok |-> FALSE, arg |-> <<>>]
       ELSE LET shown == paginate(OrdersQuery(orders, status), page, PerPage)
            IN last' = [op |-> op, user |-> a, ok |-> shown.slice # <<>>,
                        arg |-> [page |-> page, status |-> status,
                                 shown |-> IdsOf(shown.slice),
                                 total |-> shown.total]]
    /\ UNCHANGED <<tasks, users, products, cart, next_cart_id, orders, order_items,
                   fsm, data, txn>>

adm_order_list(a, page) == render_orders("adm_order_list", a, page, None)

adm_order_filter(a, status, page) ==
    render_orders("adm_order_filter", a, page, status)

on_orders(u) ==
    /\ Free
    /\ users' = get_or_create_user(users, u)
    /\ last' = [op |-> "on_orders", user |-> u,
                ok |-> get_user_orders(orders, u) # <<>>,
                arg |-> [page |-> 0, status |-> None,
                         shown |-> IdsOf(get_user_orders(orders, u)),
                         total |-> Len(get_user_orders(orders, u))]]
    /\ UNCHANGED <<tasks, products, cart, next_cart_id, orders, order_items,
                   fsm, data, txn>>

-----------------------------------------------------------------------------
(* Specifications *)

CartStep(U, P, Z, Q) ==
    \/ \E u \in U, p \in P, z \in Z, q \in Q : on_qty(u, p, z, q)
    \/ \E u \in U : on_cart_clear(u)
    \/ \E u \in U, id \in 1..MaxCartRows : on_remove_item(u, id)

CatalogStep(deleted, edited, texts) ==
    \/ \E pid \in deleted : adm_prod_delete(Admin, pid)
    \/ \E pid \in edited : adm_prod_edit_field(Admin, pid, "price")
    \/ \E t \in texts : adm_prod_apply_edit(Admin, t)

StatusStep(U) ==
    \/ \E u \in U, o \in 1..MaxOrders : on_order_cancel(u, o)
    \/ \E o \in 1..MaxOrders, st \in Statuses : adm_order_set_status(Admin, o, st)

CheckoutStep(U) ==
    \/ \E u \in U : on_checkout(u)
    \/ \E u \in U : cart_checkout(u)
    \/ \E u \in U, t \in NameTexts : on_fullname(u, t)
    \/ \E u \in U, t \in PhoneTexts : on_phone(u, t)
    \/ \E u \in U, b \in DeliveryButtons : on_delivery_type(u, b)
    \/ \E u \in U, t \in CityTexts : on_cdek_city(u, t)
    \/ \E u \in U, t \in PvzTexts : on_cdek_pvz(u, t)
    \/ \E u \in U, t \in AddressTexts : on_address(u, t)
    \/ \E u \in U : confirm_cancel(u)
    \/ \E u \in U : cancel_handler(u)

\* the shortest conversation that reaches Confirming
CourierCheckout(U) ==
    \/ \E u \in U : cart_checkout(u)
    \/ \E u \in U : on_fullname(u, T_ivan)
    \/ \E u \in U : on_phone(u, T_phone)
    \/ \E u \in U : on_delivery_type(u, "courier")
    \/ \E u \in U : on_address(u, T_addr)

CommitStep(U) ==
    \/ \E u \in U, n \in OrderNumbers : confirm_order(u, n)
    \/ create_order_add_item
    \/ create_order_commit
    \/ create_order_clear_cart
    \/ create_order_fail
    \/ clear_cart_fail

\* the cart and the catalog: both customers, every product and size; the
\* operator reprices product 1 and deletes product 2
Next ==
    \/ CartStep(Customers, ProductIds, Sizes, QtyButtons)
    \/ CatalogStep({2}, {1}, PriceTexts)
    \/ rate_limited(1)

Spec == Init /\ [][Next]_vars

\* the checkout conversation of one customer up to Confirming
NextCheckout ==
    \/ \E u \in {1} : on_start(u)
    \/ CartStep({1}, {1}, {<<"M">>}, {1})
    \/ CheckoutStep({1})

SpecCheckout == Init /\ [][NextCheckout]_vars

\* from cart to committed order: one customer, both products, a price edit
NextCommit ==
    \/ on_qty(1, 1, <<"M">>, 2)
    \/ on_qty(1, 2, <<"M">>, 1)
    \/ adm_prod_edit_field(Admin, 1, "price")
    \/ adm_prod_apply_edit(Admin, T_1500)
    \/ CourierCheckout({1})
    \/ CommitStep({1})

SpecCommit == Init /\ [][NextCommit]_vars

\* the status of committed orders: the customers' cancel and the operator
NextStatus ==
    \/ on_qty(1, 1, <<"M">>, 3)
    \/ CourierCheckout({1})
    \/ CommitStep({1})
    \/ StatusStep(Customers)

SpecStatus == Init /\ [][NextStatus]_vars

\* the cart cleared while the conversation is under way, then confirm
NextAbort ==
    \/ on_qty(1, 1, <<"M">>, 1)
    \/ on_cart_clear(1)
    \/ CourierCheckout({1})
    \/ CommitStep({1})

SpecAbort == Init /\ [][NextAbort]_vars

\* /cancel in every state of the checkout conversation, both delivery paths
NextCancel ==
    \/ on_qty(1, 1, <<"M">>, 1)
    \/ CourierCheckout({1})
    \/ on_delivery_type(1, "cdek")
    \/ on_cdek_city(1, T_msk)
    \/ on_cdek_pvz(1, T_a1)
    \/ send_cancel(1)

SpecCancel == Init /\ [][NextCancel]_vars

\* every operation on cart_items: the cart handlers and the repository's
\* update and remove
NextCart ==
    \/ CartStep(Customers, {1}, Sizes, {1})
    \/ \E u \in Customers, z \in Sizes : remove_from_cart(u, 1, z)
    \/ \E u \in Customers, z \in Sizes, q \in {0, 2} :
           update_cart_item(u, 1, z, q)

SpecCart == Init /\ [][NextCart]_vars

\* concurrent adds of one customer: three updates handled as tasks
NextTasks ==
    \/ \E t \in TaskIds, p \in ProductIds, q \in QtyButtons :
           on_qty_begin(t, 1, p, <<"M">>, q)
    \/ \E t \in TaskIds : on_qty_db(t)
    \/ \E t \in TaskIds : on_qty_answer(t)

SpecTasks == Init /\ [][NextTasks]_vars

\* the three buttons of the confirmation keyboard, on both delivery paths,
\* with an earlier order of the same customer in the table
NextConfirm ==
    \/ on_qty(1, 1, <<"M">>, 1)
    \/ CourierCheckout({1})
    \/ on_delivery_type(1, "cdek")
    \/ on_cdek_city(1, T_msk)
    \/ on_cdek_pvz(1, T_a1)
    \/ confirm_edit(1)
    \/ confirm_cancel(1)
    \/ CommitStep({1})

SpecConfirm == Init /\ [][NextConfirm]_vars

\* "qty:" callbacks of one customer with any size and any number, and every
\* other operation on the cart
NextQty ==
    \/ \E z \in Sizes, q \in QtyPayloads : on_qty(1, 1, z, q)
    \/ on_cart_clear(1)
    \/ \E id \in 1..MaxCartRows : on_remove_item(1, id)
    \/ \E z \in Sizes : remove_from_cart(1, 1, z)
    \/ \E z \in Sizes, q \in QtyPayloads : update_cart_item(1, 1, z, q)

SpecQty == Init /\ [][NextQty]_vars

\* the fields of a product kept in order lines under another name
EditFields == {"name", "sizes"}

\* a committed order under what the customer and the operator do afterwards:
\* a new cart and checkout, cancel, a status change, edits of the ordered
\* product and its deletion
NextHistory ==
    \/ on_qty(1, 1, <<"M">>, 3)
    \/ CourierCheckout({1})
    \/ CommitStep({1})
    \/ \E o \in 1..MaxOrders : on_order_cancel(1, o)
    \/ \E o \in 1..MaxOrders : adm_order_set_status(Admin, o, "shipped")
    \/ adm_prod_delete(Admin, 1)
    \/ \E f \in EditFields : adm_prod_edit_field(Admin, 1, f)
    \/ adm_prod_apply_edit(Admin, T_abc)

SpecHistory == Init /\ [][NextHistory]_vars

\* both customers order; generate_order_number draws from two numbers, so
\* a second order can draw the number of the first
NextNumbers ==
    \/ \E u \in Customers : on_qty(u, 1, <<"M">>, 3)
    \/ CourierCheckout(Customers)
    \/ CommitStep(Customers)

SpecNumbers == Init /\ [][NextNumbers]_vars

\* confirm with answers to the customer that can fail to be delivered
NextDelivery ==
    \/ on_qty(1, 1, <<"M">>, 1)
    \/ CourierCheckout({1})
    \/ CommitStep({1})
    \/ \E b \in BOOLEAN : order_answer_fail(b)

SpecDelivery == Init /\ [][NextDelivery]_vars

\* one step of the checkout conversation of the users in U, on both
\* delivery paths, with the ways out of it
SessionStep(U) ==
    \/ CourierCheckout(U)
    \/ \E u \in U : on_delivery_type(u, "cdek")
    \/ \E u \in U : on_cdek_city(u, T_msk)
    \/ \E u \in U : on_cdek_pvz(u, T_a1)
    \/ \E u \in U : confirm_cancel(u)
    \/ \E u \in U : cancel_handler(u)

\* the checkout conversations of both customers, interleaved
NextSessions ==
    \/ \E u \in Customers : on_qty(u, 1, <<"M">>, 3)
    \/ SessionStep(Customers)

SpecSessions == Init /\ [][NextSessions]_vars

\* the pages and the filters the operator's keyboards carry
ListPages == 0..3
ListFilters == {None, "pending", "shipped"}

\* a database after n orders of one line each were made, alternately by the
\* two customers, and every k-th of them was shipped; customer 1 has a line
\* in the cart again
ListedOrder(i, k) ==
    [id |-> i, user_id |-> 2 - (i % 2), order_number |-> <<"ORD", i>>,
     status |-> IF i % k = 0 THEN "shipped" ELSE "pending",
     total_amount |-> 1000, fullname |-> T_ivan,
     phone |-> OnlyDigits(T_phone), delivery_type |-> "courier",
     delivery_address |-> [address |-> T_addr]]

ListedItem(i) ==
    [order_id |-> i, product_id |-> 1, product_name |-> <<"A">>,
     size |-> <<"M">>, price |-> 1000, quantity |-> 1, total |-> 1000]

InitListed ==
    /\ users = AllUsers
    /\ products = InitProducts
    /\ \E n \in 0..MaxListed, k \in 1..3 :
          /\ orders = [i \in 1..n |-> ListedOrder(i, k)]
          /\ order_items = [i \in 1..n |-> ListedItem(i)]
          /\ cart = {[id |-> n + 1, user_id |-> 1, product_id |-> 1,
                      size |-> <<"M">>, quantity |-> 1]}
          /\ next_cart_id = n + 2
    /\ fsm = [u \in AllUsers |-> None]
    /\ data = [u \in AllUsers |-> EmptyData]
    /\ txn = Idle
    /\ tasks = [t \in TaskIds |-> NoTask]
    /\ last = [op |-> "init", user |-> 0, ok |-> TRUE, arg |-> <<>>]

\* the order lists, asked for by the operator and by the customers
NextListed ==
    \/ \E a \in AllUsers, page \in ListPages : adm_order_list(a, page)
    \/ \E a \in AllUsers, page \in ListPages, st \in ListFilters \ {None} :
           adm_order_filter(a, st, page)
    \/ \E u \in Customers : on_orders(u)

SpecListed == InitListed /\ [][NextListed]_vars

\* confirm pressed several times: the presses of one customer handled as
\* concurrent tasks, each drawing its own order number
NextPresses ==
    \/ on_qty(1, 1, <<"M">>, 1)
    \/ CourierCheckout({1})
    \/ \E t \in TaskIds : confirm_begin(t, 1)
    \/ \E t \in TaskIds, n \in OrderNumbers : confirm_db(t, n)
    \/ \E t \in TaskIds : confirm_finish(t)

SpecPresses == Init /\ [][NextPresses]_vars

\* from the draft to the committed order: both delivery paths, with texts
\* and with messages that carry no text where the handler takes any message
NextDrafts ==
    \/ on_qty(1, 1, <<"M">>, 1)
    \/ CourierCheckout({1})
    \/ on_address(1, NoText)
    \/ on_delivery_type(1, "cdek")
    \/ \E t \in CityTexts \cup {NoText} : on_cdek_city(1, t)
    \/ \E t \in PvzTexts : on_cdek_pvz(1, t)
    \/ CommitStep({1})

SpecDrafts == Init /\ [][NextDrafts]_vars

\* the order of customer 1 and the callbacks that name it by its id, sent
\* by its owner, by the other customer and by the operator
NextAccess ==
    \/ on_qty(1, 1, <<"M">>, 3)
    \/ CourierCheckout({1})
    \/ CommitStep({1})
    \/ \E u \in Customers, o \in 1..MaxOrders : on_order_cancel(u, o)
    \/ \E a \in AllUsers, o \in 1..MaxOrders, st \in {"confirmed", "shipped"} :
           adm_order_set_status(a, o, st)

SpecAccess == Init /\ [][NextAccess]_vars

-----------------------------------------------------------------------------
(* Properties *)

\* C1: adding to the cart twice for the same (user, product, size) leaves
\* exactly one cart line for that key; its quantity is what the key held
\* before the first add plus both added quantities, never two lines
C1_AddTwiceMerges ==
    [][\A u \in Customers, q2 \in QtyButtons :
          ( /\ last.op = "on_qty" /\ last.ok /\ last.user = u
            /\ on_qty(u, last.arg.product_id, last.arg.size, q2) )
          => LET m == CartMatches(cart', u, last.arg.product_id, last.arg.size)
             IN /\ Cardinality(m) = 1
                /\ \A r \in m : r.quantity = last.arg.before + last.arg.qty + q2
      ]_vars

\* two adds of 1 and 2 for a key that had no line: one line holding 3
C1_Witness ==
    /\ last.op = "on_qty" /\ last.ok
    /\ last.arg.before = 1 /\ last.arg.qty = 2
    /\ Cardinality(CartMatches(cart, last.user, last.arg.product_id,
                               last.arg.size)) = 1
    /\ QuantityOf(cart, last.user, last.arg.product_id, last.arg.size) = 3

\* price * quantity summed over a set of cart rows, at the prices of pr
RECURSIVE SumLines(_, _)
SumLines(pr, rows) ==
    IF rows = {} THEN 0
    ELSE LET r == CHOOSE x \in rows : TRUE
         IN pr[r.product_id].price * r.quantity + SumLines(pr, rows \ {r})

\* C6: the total the cart view shows is the sum, over all of the user's cart
\* lines and no others, of the product's current price times the line's
\* quantity; the view shows a cart exactly when the user has lines
C6_CartTotalIsSumOfLines ==
    \A u \in Customers :
        LET rows == {r \in cart : r.user_id = u}
            view == format_cart(users, products, cart, u)
        IN /\ (view.kind = "cart") <=> rows # {}
           /\ view.total = SumLines(products, rows)

\* two lines, 2 x product 1 after its price became 1500 and 1 x product 2
C6_Witness ==
    \E u \in Customers :
        /\ products[1].price = 1500
        /\ \E r \in cart : r.user_id = u /\ r.product_id = 1 /\ r.quantity = 2
        /\ \E r \in cart : r.user_id = u /\ r.product_id = 2 /\ r.quantity = 1
        /\ format_cart(users, products, cart, u) = [kind |-> "cart", total |-> 5000]

\* C2: a customer's cancel of an existing order sets its status to cancelled
\* if and only if the status was pending or confirmed; from any other status
\* it is refused and the order is left as it was
C2_UserCancelOnlyFromPendingOrConfirmed ==
    [][\A u \in Customers, o \in 1..MaxOrders :
          (on_order_cancel(u, o) /\ HasOrder(orders, o))
          => IF orders[o].status \in {"pending", "confirmed"}
             THEN /\ orders' = [orders EXCEPT ![o].status = "cancelled"]
                  /\ last'.ok
             ELSE /\ orders' = orders
                  /\ ~last'.ok
      ]_vars

\* a cancel was refused for an order the operator had moved to shipped
C2_Witness ==
    /\ last.op = "on_order_cancel" /\ ~last.ok
    /\ Len(orders) = MaxOrders
    /\ \A o \in 1..Len(orders) : orders[o].status = "shipped"

\* C3: over every writer of the status, the customer's cancel and the
\* operator's set-status alike, a step that changes an order's status to
\* cancelled starts from pending or confirmed
C3_CancelledOnlyFromPendingOrConfirmed ==
    [][\A o \in 1..Len(orders) :
          (orders'[o].status = "cancelled" /\ orders[o].status # "cancelled")
          => orders[o].status \in {"pending", "confirmed"}
      ]_vars

\* the lines of one order, in the order they were inserted
ItemsOf(ois, order_id) == SelectSeq(ois, LAMBDA it : it.order_id = order_id)

\* C4: order creation is all-or-nothing.  While create_order is between
\* flush and commit, and after it failed there, no read of the tables sees
\* the order or any of its lines; no state holds a committed order without
\* lines or lines without their order
C4_CreateOrderIsAtomic ==
    /\ \A i \in 1..Len(orders) : ItemsOf(order_items, orders[i].id) # <<>>
    /\ \A j \in 1..Len(order_items) :
           \E i \in 1..Len(orders) : orders[i].id = order_items[j].order_id
    /\ txn.pc = "flushed"
       => /\ \A i \in 1..Len(orders) : orders[i].id # txn.order.id
          /\ ItemsOf(order_items, txn.order.id) = <<>>
    /\ (last.op = "confirm_order" /\ last.arg.result = "error")
       => /\ \A i \in 1..Len(orders) : orders[i].id # last.arg.order_id
          /\ ItemsOf(order_items, last.arg.order_id) = <<>>

\* create_order failed after flush with a non-empty cart: nothing was stored
C4_Witness ==
    /\ last.op = "confirm_order" /\ last.arg.result = "error"
    /\ last.arg.order_id = 1
    /\ get_user_cart(cart, last.user) # <<>>
    /\ orders = <<>> /\ order_items = <<>>
    /\ Free

\* C5: a change of a product's price leaves every order line's price and
\* total and every order's total_amount as they were
C5_PriceEditKeepsOrders ==
    [][\A t \in EditTexts :
          (adm_prod_apply_edit(Admin, t) /\ data[Admin].edit_field = "price")
          => /\ Len(orders') = Len(orders) /\ Len(order_items') = Len(order_items)
             /\ \A i \in 1..Len(orders) :
                    orders'[i].total_amount = orders[i].total_amount
             /\ \A j \in 1..Len(order_items) :
                    /\ order_items'[j].price = order_items[j].price
                    /\ order_items'[j].total = order_items[j].total
      ]_vars

\* product 1 was ordered at 1000 and repriced to 1500 afterwards: the line
\* and the order still carry 1000
C5_Witness ==
    /\ last.op = "adm_prod_apply_edit" /\ last.ok
    /\ products[1].price = 1500
    /\ \E j \in 1..Len(order_items) :
           /\ order_items[j].product_id = 1
           /\ order_items[j].price = 1000
           /\ order_items[j].total = 1000 * order_items[j].quantity
    /\ \E i \in 1..Len(orders) : orders[i].total_amount = 2000

\* C7: a confirmation that succeeds with a non-empty cart adds exactly one
\* order, with status pending, whose lines match the user's cart lines at
\* commit time one for one (product, size, quantity, the product's price and
\* name then); once it has returned the user's cart is empty
C7_ConfirmMakesOrderFromCart ==
    /\ txn.pc = "committed"
       => LET lines == get_user_cart(cart, txn.user)
              order == orders[Len(orders)]
              made == ItemsOf(order_items, order.id)
          IN /\ Len(orders) = txn.n_before + 1
             /\ order.user_id = txn.user
             /\ order.status = "pending"
             /\ lines # <<>>
             /\ Len(made) = Len(lines)
             /\ \A k \in 1..Len(lines) :
                    /\ made[k].product_id = lines[k].product_id
                    /\ made[k].size = lines[k].size
                    /\ made[k].quantity = lines[k].quantity
                    /\ made[k].price = products[lines[k].product_id].price
                    /\ made[k].product_name = products[lines[k].product_id].name
    /\ (last.op = "confirm_order" /\ last.arg.result = "ok")
       => /\ get_user_cart(cart, last.user) = <<>>
          /\ HasOrder(orders, last.arg.order_id)
          /\ orders[last.arg.order_id].status = "pending"
          /\ ItemsOf(order_items, last.arg.order_id) # <<>>

\* 2 x product 1 and 1 x product 2 were ordered: one pending order of two
\* lines, total 4000, and an empty cart
C7_Witness ==
    /\ last.op = "confirm_order" /\ last.arg.result = "ok"
    /\ Len(orders) = 1 /\ orders[1].status = "pending"
    /\ orders[1].total_amount = 4000
    /\ Len(order_items) = 2
    /\ order_items[1].quantity = 2 /\ order_items[2].quantity = 1
    /\ get_user_cart(cart, last.user) = <<>>

\* the totals of the lines of one order, added up
RECURSIVE SumTotals(_)
SumTotals(items) ==
    IF items = <<>> THEN 0 ELSE Head(items).total + SumTotals(Tail(items))

\* C8: every order line's total is its price times its quantity, and every
\* committed order's total_amount is the sum of its lines' totals
C8_TotalsAddUp ==
    /\ \A j \in 1..Len(order_items) :
           order_items[j].total = order_items[j].price * order_items[j].quantity
    /\ \A i \in 1..Len(orders) :
           orders[i].total_amount = SumTotals(ItemsOf(order_items, orders[i].id))

\* an order of two lines at 1500 x 2 and 2000 x 1 carries 5000
C8_Witness ==
    \E i \in 1..Len(orders) :
        /\ orders[i].total_amount = 5000
        /\ Len(ItemsOf(order_items, orders[i].id)) = 2
        /\ \E j \in 1..Len(order_items) :
               order_items[j].price = 1500 /\ order_items[j].total = 3000

\* C9: starting checkout, by /checkout or by the cart's checkout button,
\* for a user who has no cart lines is refused and leaves the user's FSM
\* state unset, also when the user has no row in users yet
C9_EmptyCartStartsNoCheckout ==
    [][\A u \in Customers :
          ( /\ (on_checkout(u) \/ cart_checkout(u))
            /\ {r \in cart : r.user_id = u} = {}
            /\ fsm[u] = None )
          => /\ fsm'[u] = None
             /\ ~last'.ok
      ]_vars

\* C10: in waiting_phone a text whose digits do not number 10 or 11 leaves
\* the user in waiting_phone and every field of the draft, phone included,
\* as it was
C10_InvalidPhoneKeepsDraft ==
    [][\A u \in Customers, t \in PhoneTexts :
          (on_phone(u, t) /\ Len(OnlyDigits(t)) \notin {10, 11})
          => /\ fsm'[u] = "waiting_phone"
             /\ data'[u] = data[u]
             /\ ~last'.ok
      ]_vars

\* a text was refused in waiting_phone: the name entered before is kept and
\* no phone is stored
C10_Witness ==
    /\ last.op = "on_phone" /\ ~last.ok
    /\ fsm[last.user] = "waiting_phone"
    /\ data[last.user].fullname = T_ivan
    /\ data[last.user].phone = NoText

\* the quantities the finished tasks of a set added for one key
RECURSIVE AddedBy(_, _, _, _)
AddedBy(ts, user_id, product_id, size) ==
    IF ts = {} THEN 0
    ELSE LET t == CHOOSE x \in ts : TRUE
             mine == /\ tasks[t].pc = "done"
                     /\ tasks[t].user = user_id
                     /\ tasks[t].product_id = product_id
                     /\ tasks[t].size = size
         IN (IF mine THEN tasks[t].qty ELSE 0)
            + AddedBy(ts \ {t}, user_id, product_id, size)

\* C11: on_qty handlers that run concurrently for the same (user, product,
\* size) lose no update: however they interleave, once they have returned
\* there is one line for the key and it holds the sum of what they added
C11_ConcurrentAddsLoseNothing ==
    (\A t \in TaskIds : tasks[t].pc \in {"none", "done"})
    => \A u \in Customers, p \in ProductIds, z \in Sizes :
           /\ Cardinality(CartMatches(cart, u, p, z)) <= 1
           /\ QuantityOf(cart, u, p, z) = AddedBy(TaskIds, u, p, z)

\* two handlers were both past the rate limit before either wrote; both
\* have returned and the line holds 1 + 2
C11_Witness ==
    /\ tasks[1].pc = "done" /\ tasks[2].pc = "done" /\ tasks[3].pc = "none"
    /\ tasks[1].product_id = 1 /\ tasks[2].product_id = 1
    /\ tasks[1].qty = 1 /\ tasks[2].qty = 2
    /\ tasks[1].at_entry = {} /\ tasks[2].at_entry = {}
    /\ QuantityOf(cart, 1, 1, <<"M">>) = 3

\* C12: whatever sequence of add, update, remove and clear has run, the
\* cart holds at most one line per (user, product, size)
C12_OneLinePerKey ==
    \A u \in Customers, p \in ProductIds, z \in Sizes :
        Cardinality(CartMatches(cart, u, p, z)) <= 1

\* the first row inserted is gone again and the second was updated: the
\* cart is one line, holding the updated quantity
C12_Witness ==
    /\ last.op = "update_cart_item" /\ last.ok
    /\ cart = {[id |-> 2, user_id |-> last.user, product_id |-> 1,
                size |-> <<"M">>, quantity |-> 2]}

\* C13: /cancel sent in any state of the checkout conversation ends the
\* session: the FSM state and the draft are cleared, and the cart lines and
\* the orders stay as they were
C13_CancelEndsSession ==
    [][\A u \in Customers :
          (send_cancel(u) /\ fsm[u] \in OrderFSM)
          => /\ fsm'[u] = None
             /\ data'[u] = EmptyData
             /\ cart' = cart
             /\ orders' = orders /\ order_items' = order_items
      ]_vars

\* C14: when create_order raises after confirm was pressed, the session
\* stays in confirm and the draft keeps the name, the phone, the delivery
\* method and its detail, so that confirm can be pressed again
C14_FailedCommitKeepsSession ==
    [][create_order_fail
       => /\ fsm'[txn.user] = "confirm"
          /\ data'[txn.user] = data[txn.user]
      ]_vars

\* C15: when confirm is pressed and the cart read again is empty, nothing is
\* committed: no order and no order line is created, no create_order is
\* started, and the FSM state and the draft are cleared
C15_EmptyCartAtConfirmAborts ==
    [][\A u \in Customers, n \in OrderNumbers :
          (confirm_order(u, n) /\ get_user_cart(cart, u) = <<>>)
          => /\ orders' = orders /\ order_items' = order_items
             /\ txn' = Idle
             /\ fsm'[u] = None
             /\ data'[u] = EmptyData
      ]_vars

\* the cart had a line, was cleared after checkout had started, and confirm
\* found it empty
C15_Witness ==
    /\ last.op = "confirm_order" /\ last.arg.result = "empty_cart"
    /\ next_cart_id > 1 /\ cart = {}
    /\ orders = <<>> /\ order_items = <<>>
    /\ fsm[last.user] = None /\ data[last.user] = EmptyData

\* C16: the conversation only advances name, phone, delivery method, then
\* city and pickup point or address, then confirm: whenever a user is in
\* confirm the draft holds a name, a phone, a delivery method and the
\* delivery detail of that method
C16_ConfirmHoldsWholeDraft ==
    \A u \in Customers :
        fsm[u] = "confirm"
        => /\ data[u].fullname # NoText
           /\ data[u].phone # NoText
           /\ data[u].delivery_type \in {"cdek", "courier"}
           /\ data[u].delivery_type = "cdek"
              => data[u].cdek_city # NoText /\ data[u].cdek_pvz # NoText
           /\ data[u].delivery_type = "courier" => data[u].address # NoText

\* C17: in waiting_delivery_type exactly two values are accepted: cdek is
\* stored and leads to waiting_cdek_city, courier is stored and leads to
\* waiting_address; any other value leaves the state and the draft as they
\* were
C17_TwoDeliveryTypes ==
    [][\A u \in Customers, b \in DeliveryButtons :
          on_delivery_type(u, b)
          => CASE b = "cdek" ->
                    /\ fsm'[u] = "waiting_cdek_city"
                    /\ data'[u] = [data[u] EXCEPT !.delivery_type = "cdek"]
               [] b = "courier" ->
                    /\ fsm'[u] = "waiting_address"
                    /\ data'[u] = [data[u] EXCEPT !.delivery_type = "courier"]
               [] OTHER ->
                    /\ fsm'[u] = "waiting_delivery_type"
                    /\ data'[u] = data[u]
      ]_vars

\* a third value was pressed: the user is still asked for the delivery type
\* and none is stored
C17_Witness ==
    /\ last.op = "on_delivery_type" /\ ~last.ok
    /\ fsm[last.user] = "waiting_delivery_type"
    /\ data[last.user].delivery_type = None
    /\ data[last.user].phone # NoText

\* a text of at least two space-separated tokens, made of letters, hyphens
\* and spaces only
TwoTokenName(t) ==
    LET s == Strip(t)
    IN /\ \A i \in 1..Len(s) : s[i] \in Letters \cup Whitespace \cup {"-"}
       /\ \E i \in 2..(Len(s) - 1) : s[i] \in Whitespace

\* C18: in waiting_fullname the conversation advances to waiting_phone only
\* for a text of at least two space-separated tokens of letters, hyphens and
\* spaces; any other text, a single word for one, leaves the state and the
\* draft as they were
C18_NameNeedsTwoTokens ==
    [][\A u \in Customers, t \in NameTexts :
          (on_fullname(u, t) /\ ~TwoTokenName(t))
          => /\ fsm'[u] = "waiting_fullname"
             /\ data'[u] = data[u]
      ]_vars

\* C19: in waiting_phone the conversation advances to waiting_delivery_type
\* if and only if the text, all non-digits removed, has 10 or 11 digits, and
\* the phone stored in the draft is that string of digits
C19_PhoneStoredAsDigits ==
    [][\A u \in Customers, t \in PhoneTexts :
          on_phone(u, t)
          => IF Len(OnlyDigits(t)) \in {10, 11}
             THEN /\ fsm'[u] = "waiting_delivery_type"
                  /\ data'[u] = [data[u] EXCEPT !.phone = OnlyDigits(t)]
                  /\ \A i \in 1..Len(data'[u].phone) : data'[u].phone[i] \in Digits
             ELSE fsm'[u] = "waiting_phone"
      ]_vars

\* "+7 999 123-45-67" was accepted and stored as 79991234567
C19_Witness ==
    /\ last.op = "on_phone" /\ last.ok
    /\ fsm[last.user] = "waiting_delivery_type"
    /\ data[last.user].phone
         = <<"7", "9", "9", "9", "1", "2", "3", "4", "5", "6", "7">>

\* C20: in waiting_address a text shorter than 8 characters does not advance
\* the conversation: the state stays waiting_address and no address is
\* stored; only texts of 8 characters or more reach confirm
C20_AddressNeedsEightChars ==
    [][\A u \in Customers, t \in AddressTexts :
          (on_address(u, t) /\ (t = NoText \/ Len(t) < 8))
          => /\ fsm'[u] = "waiting_address"
             /\ data'[u].address = data[u].address
      ]_vars

\* C21: in confirm the edit button takes the user back to the state that
\* collects the delivery detail of the chosen method, waiting_cdek_city for
\* cdek and waiting_address for courier, and the name and the phone of the
\* draft stay as they were
C21_EditReturnsToDeliveryDetail ==
    [][\A u \in Customers :
          confirm_edit(u)
          => /\ fsm'[u] = IF data[u].delivery_type = "cdek"
                          THEN "waiting_cdek_city" ELSE "waiting_address"
             /\ data'[u].fullname = data[u].fullname
             /\ data'[u].phone = data[u].phone
      ]_vars

\* C22: in confirm the cancel button clears the FSM state and the draft and
\* nothing else: the cart lines, the orders and the order lines are the same
\* before and after
C22_ConfirmCancelTouchesOnlySession ==
    [][\A u \in Customers :
          confirm_cancel(u)
          => /\ fsm'[u] = None
             /\ data'[u] = EmptyData
             /\ cart' = cart
             /\ orders' = orders /\ order_items' = order_items
             /\ users' = users /\ products' = products
             /\ \A o \in AllUsers \ {u} : fsm'[o] = fsm[o] /\ data'[o] = data[o]
      ]_vars

\* a second checkout was cancelled at confirm: the cart line and the order
\* of the first checkout are still there
C22_Witness ==
    /\ last.op = "confirm_cancel"
    /\ fsm[last.user] = None /\ data[last.user] = EmptyData
    /\ get_user_cart(cart, last.user) # <<>>
    /\ Len(orders) = 1 /\ Len(order_items) = 1

\* the sizes a product is sold in
HasSize(product, size) == \E i \in 1..Len(product.sizes) : product.sizes[i] = size

\* C23: adding a line whose size is not one of the product's sizes fails
\* and leaves the cart unchanged, so that every line in the cart was added
\* with a size its product had
C23_UnknownSizeIsRefused ==
    [][\A u \in Customers, p \in ProductIds, z \in Sizes, q \in QtyPayloads :
          ( /\ on_qty(u, p, z, q)
            /\ Found(get_by_id(products, p))
            /\ ~HasSize(get_by_id(products, p), z) )
          => /\ cart' = cart
             /\ ~last'.ok
      ]_vars

\* C24: adding a line with a quantity below 1 is refused and leaves the cart
\* unchanged, so that after any add, update, remove or clear every cart line
\* has a quantity of at least 1
C24_QuantityAtLeastOne ==
    [][/\ \A u \in Customers, p \in ProductIds, z \in Sizes, q \in QtyPayloads :
             (on_qty(u, p, z, q) /\ q < 1) => (cart' = cart /\ ~last'.ok)
       /\ \A r \in cart' : r.quantity >= 1
      ]_vars

C26_CommittedOrderIsFrozen ==
    [][/\ Len(orders') >= Len(orders)
       /\ \A i \in 1..Len(orders) :
             /\ orders'[i] = [orders[i] EXCEPT !.status = orders'[i].status]
             /\ ItemsOf(order_items', orders[i].id)
                  = ItemsOf(order_items, orders[i].id)
      ]_vars

\* the order was cancelled by the customer, the operator then set it to
\* shipped, renamed the ordered product and tried to delete it: the order
\* still carries what was committed
C26_Witness ==
    /\ last.op = "adm_prod_delete"
    /\ get_by_id(products, 1).name = T_abc
    /\ Len(orders) = 1 /\ orders[1].status = "shipped"
    /\ orders[1].fullname = T_ivan /\ orders[1].total_amount = 3000
    /\ orders[1].delivery_address = [address |-> T_addr]
    /\ Len(ItemsOf(order_items, 1)) = 1

\* C27: deleting a product, or editing its name or its sizes, leaves every
\* order line as it was (product name, price, size, quantity, total) and
\* removes none
C27_OrderLinesOutliveProduct ==
    [][( \/ \E pid \in ProductIds : adm_prod_delete(Admin, pid)
         \/ \E t \in EditTexts :
                /\ adm_prod_apply_edit(Admin, t)
                /\ data[Admin].edit_field \in {"name", "sizes"} )
       => /\ Len(order_items') = Len(order_items)
          /\ \A j \in 1..Len(order_items) :
                /\ order_items'[j].order_id = order_items[j].order_id
                /\ order_items'[j].product_name = order_items[j].product_name
                /\ order_items'[j].price = order_items[j].price
                /\ order_items'[j].size = order_items[j].size
                /\ order_items'[j].quantity = order_items[j].quantity
                /\ order_items'[j].total = order_items[j].total
      ]_vars

\* product 1 was ordered in size M under the name A; afterwards its name
\* and its sizes were edited: the order line still reads A, M
C27_Witness ==
    /\ last.op = "adm_prod_apply_edit" /\ last.ok
    /\ get_by_id(products, 1).name = T_abc
    /\ get_by_id(products, 1).sizes = <<T_abc>>
    /\ Len(order_items) = 1
    /\ order_items[1].product_name = <<"A">>
    /\ order_items[1].size = <<"M">>
    /\ order_items[1].total = 3000

\* C28: no two committed orders carry the same order number, also when
\* generate_order_number returns for a second order, made in the same
\* second with the same random digits, the number of the first
C28_OrderNumbersAreUnique ==
    \A i, j \in 1..Len(orders) :
        orders[i].order_number = orders[j].order_number => i = j

\* two orders were committed under the two numbers there are, and a confirm
\* that drew a number again ended in an error without a third order
C28_Witness ==
    /\ last.op = "confirm_order" /\ last.arg.result = "error"
    /\ last.arg.order_id = 3
    /\ Len(orders) = 2
    /\ orders[1].order_number # orders[2].order_number

\* C29: when persisting the order fails, by a collision of the order number
\* or by an exception before the commit, the failure is not yet what the
\* user gets: the commit is tried again, a bounded number of times, each
\* time with a number generated afresh, and only then the error is reported
C29_FailedCommitIsRetried ==
    [][/\ \A u \in Customers, n \in OrderNumbers :
             ( /\ confirm_order(u, n)
               /\ get_user_cart(cart, u) # <<>>
               /\ NumberTaken(orders, n)
               /\ \E m \in OrderNumbers : ~NumberTaken(orders, m) )
             => last'.arg.result # "error"
       /\ create_order_fail => last'.arg.result # "error"
      ]_vars

\* C30: every order that was committed is followed by the notice to the
\* customer that the order was made, sent once the cart has been cleared:
\* the handler that committed an order ends with that notice and an empty
\* cart
C30_CommitIsFollowedByNotice ==
    [][(txn.pc = "committed" /\ txn'.pc = "idle")
       => /\ last'.op = "confirm_order" /\ last'.arg.result = "ok"
          /\ last'.arg.order_id = txn.order.id
          /\ get_user_cart(cart', txn.user) = <<>>
      ]_vars

\* C31: when a message to the customer cannot be delivered after
\* create_order has committed, the order stays committed and the checkout
\* ends as a success, not with the order-creation error
C31_DeliveryFailureIsNoOrderError ==
    [][\A b \in BOOLEAN :
          order_answer_fail(b)
          => /\ orders' = orders /\ order_items' = order_items
             /\ HasOrder(orders', txn.order.id)
             /\ last'.arg.result = "ok"
      ]_vars

\* C32: when clearing the cart fails after the order and its lines have
\* been committed, the order and its lines stay committed and readable: the
\* failure rolls nothing back
C32_CartClearFailureKeepsOrder ==
    [][clear_cart_fail
       => /\ orders' = orders /\ order_items' = order_items
          /\ HasOrder(orders', txn.order.id)
          /\ orders'[txn.order.id].user_id = txn.user
          /\ Len(ItemsOf(order_items', txn.order.id)) = Len(txn.cart_items)
      ]_vars

\* clearing the cart failed after the commit: the order and its line are in
\* the tables and the cart still holds the line
C32_Witness ==
    /\ last.op = "confirm_order" /\ last.arg.result = "error_after_commit"
    /\ Free
    /\ HasOrder(orders, last.arg.order_id)
    /\ ItemsOf(order_items, last.arg.order_id) # <<>>
    /\ get_user_cart(cart, last.user) # <<>>

\* C33: a step of the checkout conversation handled for one user leaves the
\* session of every other user, its FSM state and its draft, as it was,
\* however the conversations of the two users interleave
C33_SessionsAreIsolated ==
    [][\A a \in Customers :
          SessionStep({a})
          => \A b \in AllUsers \ {a} :
                 fsm'[b] = fsm[b] /\ data'[b] = data[b]
      ]_vars

\* customer 1 gave an address and reached confirm while customer 2 was
\* asked for the phone: the draft of customer 2 holds its name and no
\* address
C33_Witness ==
    /\ last.op = "on_address" /\ last.user = 1
    /\ fsm[1] = "confirm" /\ data[1].address = T_addr
    /\ fsm[2] = "waiting_phone"
    /\ data[2].fullname = T_ivan /\ data[2].address = NoText

\* the pages 0, 1, 2, ... of a list, one after the other, up to its end
RECURSIVE ConcatPages(_, _)
ConcatPages(listing, page) ==
    IF page * PerPage >= Len(listing) THEN <<>>
    ELSE paginate(listing, page, PerPage).slice \o ConcatPages(listing, page + 1)

\* C34: listing orders, the customer's list and the operator's list with
\* or without a status filter, changes no order, order line or cart line;
\* the operator's page p holds the orders at offsets 10 p to 10 p + 9 of the
\* matching orders sorted from the newest to the oldest, so that the pages
\* 0, 1, 2, ... together hold every matching order exactly once
C34_ListingReadsInPages ==
    [][/\ ( \/ \E a \in AllUsers, page \in ListPages : adm_order_list(a, page)
            \/ \E a \in AllUsers, page \in ListPages, st \in ListFilters \ {None} :
                   adm_order_filter(a, st, page)
            \/ \E u \in Customers : on_orders(u) )
          => /\ orders' = orders /\ order_items' = order_items
             /\ cart' = cart
       /\ \A st \in ListFilters :
             LET listing == OrdersQuery(orders, st)
                 matching == {i \in 1..Len(orders) :
                                 st = None \/ orders[i].status = st}
             IN /\ Len(listing) = Cardinality(matching)
                /\ \A i \in matching : \E j \in 1..Len(listing) : listing[j].id = i
                /\ \A j \in 1..(Len(listing) - 1) : listing[j].id > listing[j + 1].id
                /\ ConcatPages(listing, 0) = listing
                /\ \A page \in ListPages :
                      LET shown == paginate(listing, page, PerPage).slice
                      IN /\ Len(shown) <= PerPage
                         /\ \A j \in 1..Len(shown) :
                               shown[j] = listing[page * PerPage + j]
       /\ (last'.op \in {"adm_order_list", "adm_order_filter"} /\ last'.ok)
          => last'.arg.shown
               = IdsOf(paginate(OrdersQuery(orders, last'.arg.status),
                                last'.arg.page, PerPage).slice)
      ]_vars

\* with 21 orders in the table the operator's third page shows one order,
\* the oldest, and the tables are as they were
C34_Witness ==
    /\ last.op = "adm_order_list" /\ last.ok
    /\ last.arg.page = 2 /\ last.arg.total = 21
    /\ last.arg.shown = <<1>>
    /\ Len(orders) = 21 /\ Len(order_items) = 21 /\ cart # {}

\* the tasks that have made an order
Makers == {t \in TaskIds : tasks[t].pc \in {"answering", "done"} /\ tasks[t].made # 0}

C36_CommittedOrderIsValid ==
    \A i \in 1..Len(orders) :
        LET o == orders[i]
        IN /\ o.fullname # NoText
           /\ validate_fullname(o.fullname).ok
           /\ o.phone # NoText
           /\ Len(o.phone) \in PhoneLengths
           /\ \A k \in 1..Len(o.phone) : o.phone[k] \in Digits
           /\ o.delivery_type \in {"cdek", "courier"}
           /\ o.delivery_type = "cdek"
              => /\ DOMAIN o.delivery_address = {"city", "pvz"}
                 /\ o.delivery_address.city # NoText
                 /\ o.delivery_address.pvz # NoText
           /\ o.delivery_type = "courier"
              => /\ DOMAIN o.delivery_address = {"address"}
                 /\ o.delivery_address.address # NoText

\* C37: the operator's set-status changes an order only for a caller who
\* is an admin: for a caller whose role is not admin every order stays as
\* it was
C37_SetStatusNeedsAdmin ==
    [][\A a \in AllUsers, o \in 1..MaxOrders, st \in Statuses :
          (adm_order_set_status(a, o, st) /\ ~is_admin(users, a))
          => orders' = orders
      ]_vars

\* C38: the customer's cancel changes only orders of the calling user: for
\* the id of an order that another user owns the status stays as it was
C38_CancelOnlyOwnOrders ==
    [][\A u \in Customers, o \in 1..MaxOrders :
          ( /\ on_order_cancel(u, o)
            /\ HasOrder(orders, o)
            /\ orders[o].user_id # u )
          => /\ orders'[o].status = orders[o].status
             /\ ~last'.ok
      ]_vars

\* C39: on_remove_item deletes only a line of the calling user: for the id
\* of a line that belongs to another user, that user's cart stays as it was
C39_RemoveOnlyOwnLines ==
    [][\A u \in Customers, id \in 1..MaxCartRows :
          on_remove_item(u, id)
          => \A r \in cart : r.user_id # u => r \in cart'
      ]_vars

====
